---- MODULE Spec2Model ----
(***************************************************************************)
(* Bookstore Management API (src/app.py): the request handlers over the    *)
(* Books table, each holding its own database connection.                  *)
(*                                                                         *)
(* Prices are fixed-point thousandths (9999 is 9.999); the Price column    *)
(* holds hundredths.  A date is <<year, month, day>>, its "%Y-%m-%d" text  *)
(* the number yyyymmdd.  A statement and the commit that publishes it to   *)
(* the other connections are one step: pyodbc connections do not           *)
(* autocommit, so no other connection sees a row before the commit.        *)
(***************************************************************************)
EXTENDS Integers, Sequences, FiniteSets, TLC

VARIABLES
    store,      \* the Books table: the committed rows, in heap order
    unique,     \* whether the schema declares BookID unique (primary key)
    pc,         \* per client: where its request stands
    req,        \* per client: the request being served
    new_id,     \* per client: create_book's local new_id (0: not read)
    last,       \* the request that ended last: its response and connection
    nreq,       \* number of requests issued so far
    lastWrite   \* per BookID: the last committed write of a handler

vars == <<store, unique, pc, req, new_id, last, nreq, lastWrite>>

----------------------------------------------------------------------------
(* Bounds and input domains *)

MaxRequests == 2
MaxArgId == 3
MaxSkip == 2
MaxLimit == 2

Clients == {"c1", "c2"}
ArgIds == 1..MaxArgId
Skips == 0..MaxSkip
Limits == 1..MaxLimit
Shops == {1, 2}

NULL == "NULL"
NoDate == <<>>
DriverMsg == "pyodbc driver message"

\* Request bodies as posted (Price before validation).
Payloads ==
    { [Title |-> "Dune", Author |-> "Herbert", Genre |-> "SciFi",
       Price |-> 9999, PublishedDate |-> NoDate],
      [Title |-> "Emma", Author |-> NULL, Genre |-> NULL,
       Price |-> 4, PublishedDate |-> <<1815, 12, 23>>],
      [Title |-> "Emma", Author |-> NULL, Genre |-> NULL,
       Price |-> 0, PublishedDate |-> NoDate],
      [Title |-> "Emma", Author |-> NULL, Genre |-> NULL,
       Price |-> -1000, PublishedDate |-> NoDate] }

NoPayload ==
    [Title |-> "", Author |-> NULL, Genre |-> NULL, Price |-> 0,
     PublishedDate |-> NoDate]

\* Tables as they may stand before the service starts (they pre-exist it).
SeedStores ==
    { <<>>,
      << [BookID |-> 3, Title |-> "Ulysses", Author |-> "Joyce", Genre |-> NULL,
          Price |-> 1550, PublishedDate |-> 19220202],
         [BookID |-> 1, Title |-> "Emma", Author |-> NULL, Genre |-> NULL,
          Price |-> 1234, PublishedDate |-> 0] >> }

Stocks ==
    << [ShopID |-> 1, BookID |-> 1, Quantity |-> 5],
       [ShopID |-> 1, BookID |-> 3, Quantity |-> 0],
       [ShopID |-> 2, BookID |-> 1, Quantity |-> 2] >>

----------------------------------------------------------------------------
(* Values and conversions *)

Range(s) == { s[i] : i \in DOMAIN s }

Min(a, b) == IF a < b THEN a ELSE b

\* round(float(v), 2) on thousandths.  An exact midpoint goes to the even
\* hundredth (Python rounds half to even); Payloads holds no midpoint.
Round2(v) ==
    LET q == v \div 10
        r == v % 10
    IN  IF r < 5 THEN q * 10
        ELSE IF r > 5 THEN (q + 1) * 10
        ELSE IF q % 2 = 0 THEN q * 10 ELSE (q + 1) * 10

\* Field(..., gt=0) and the validator's own test of v <= 0.
PriceAcceptedNonNegative(v) == v >= 0
PriceAccepted(v) == v > 0

\* BookCreate after validation: the validator's return value replaces Price.
BookCreate(raw) == [raw EXCEPT !.Price = Round2(raw.Price)]

\* date.strftime("%Y-%m-%d"), as the number yyyymmdd.
Strftime(d) == d[1] * 10000 + d[2] * 100 + d[3]

\* The PublishedDate parameter: the formatted date, or None (SQL NULL, 0).
PublishedParam(d) == IF d # NoDate THEN Strftime(d) ELSE 0

\* The date pyodbc hands back for a DATE column.
DateOfColumn(n) ==
    IF n = 0 THEN NoDate ELSE << n \div 10000, (n \div 100) % 100, n % 100 >>

\* A float parameter bound to the 2-decimal Price column, and float(row[4]).
DecimalOfFloat(p) == p \div 10
FloatOfDecimal(c) == c * 10

\* Book(BookID=row[0], ..., Price=float(row[4]), PublishedDate=row[5])
BookOfRow(row) ==
    [BookID |-> row.BookID, Title |-> row.Title, Author |-> row.Author,
     Genre |-> row.Genre, Price |-> FloatOfDecimal(row.Price),
     PublishedDate |-> DateOfColumn(row.PublishedDate)]

\* Book(BookID=id, Title=book.Title, ..., PublishedDate=book.PublishedDate)
BookOfPayload(id, book) ==
    [BookID |-> id, Title |-> book.Title, Author |-> book.Author,
     Genre |-> book.Genre, Price |-> book.Price,
     PublishedDate |-> book.PublishedDate]

\* The row the INSERT's parameters make.
InsertParams(id, book) ==
    [BookID |-> id, Title |-> book.Title, Author |-> book.Author,
     Genre |-> book.Genre, Price |-> DecimalOfFloat(book.Price),
     PublishedDate |-> PublishedParam(book.PublishedDate)]

----------------------------------------------------------------------------
(* Statements *)

Ids(s) == { s[i].BookID : i \in DOMAIN s }

RECURSIVE MaxOf(_)
MaxOf(S) ==
    IF S = {} THEN 0
    ELSE LET x == CHOOSE y \in S : TRUE
             m == MaxOf(S \ {x})
         IN  IF x > m THEN x ELSE m

\* SELECT ISNULL(MAX(BookID), 0) + 1 FROM Books
NextBookIdNoIncrement(s) == MaxOf(Ids(s))
NextBookId(s) == MaxOf(Ids(s)) + 1

\* what fetchone() may return for ... WHERE BookID = ?: <<>> is None
FetchOne(s, id) ==
    IF id \in Ids(s)
    THEN { <<s[i]>> : i \in { j \in DOMAIN s : s[j].BookID = id } }
    ELSE { <<>> }

RECURSIVE InsertSorted(_, _)
InsertSorted(row, sorted) ==
    IF sorted = <<>> THEN <<row>>
    ELSE IF row.BookID < Head(sorted).BookID THEN <<row>> \o sorted
    ELSE <<Head(sorted)>> \o InsertSorted(row, Tail(sorted))

RECURSIVE OrderByBookID(_)
OrderByBookID(s) ==
    IF s = <<>> THEN <<>>
    ELSE InsertSorted(s[Len(s)], OrderByBookID(SubSeq(s, 1, Len(s) - 1)))

\* ... ORDER BY BookID OFFSET skip ROWS FETCH NEXT limit ROWS ONLY
OffsetFetchUnordered(s, skip, limit) ==
    SubSeq(s, skip + 1, Min(skip + limit, Len(s)))
OffsetFetch(s, skip, limit) ==
    SubSeq(OrderByBookID(s), skip + 1, Min(skip + limit, Len(s)))

\* DELETE FROM Books WHERE BookID = ?
RECURSIVE DeleteRows(_, _)
DeleteRows(s, id) ==
    IF s = <<>> THEN <<>>
    ELSE IF Head(s).BookID = id THEN DeleteRows(Tail(s), id)
    ELSE <<Head(s)>> \o DeleteRows(Tail(s), id)

\* UPDATE Books SET Title = ?, ... WHERE BookID = ?
UpdateRows(s, id, book) ==
    [ i \in DOMAIN s |->
        IF s[i].BookID = id THEN InsertParams(id, book) ELSE s[i] ]

\* The INSERT violates the key: BookID is declared unique and is taken.
KeyViolation(s, id) == unique /\ id \in Ids(s)

\* SELECT b.Title, s.Quantity, b.BookID FROM Stocks s JOIN Books b
\*   ON s.BookID = b.BookID WHERE s.ShopID = ?
RECURSIVE JoinBooks(_, _)
JoinBooks(stock, s) ==
    IF s = <<>> THEN <<>>
    ELSE ( IF Head(s).BookID = stock.BookID
           THEN << [title |-> Head(s).Title, quantity |-> stock.Quantity,
                    book_id |-> Head(s).BookID] >>
           ELSE <<>> ) \o JoinBooks(stock, Tail(s))

RECURSIVE JoinStock(_, _, _)
JoinStock(st, s, shop) ==
    IF st = <<>> THEN <<>>
    ELSE ( IF Head(st).ShopID = shop THEN JoinBooks(Head(st), s) ELSE <<>> )
         \o JoinStock(Tail(st), s, shop)

----------------------------------------------------------------------------
(* Responses and the handlers' exception flow *)

\* A value a try block ends with: exc = "none" is a return, else a raise.
Ok(body) ==
    [status |-> 200, json |-> TRUE, detail |-> <<>>, body |-> body,
     exc |-> "none"]

HTTPException(status, detail) ==
    [status |-> status, json |-> TRUE, detail |-> detail, body |-> <<>>,
     exc |-> "HTTPException"]

\* A pyodbc.Error of a statement or a commit; str(e) is the driver's message.
PyodbcError ==
    [status |-> 0, json |-> FALSE, detail |-> <<DriverMsg>>, body |-> <<>>,
     exc |-> "pyodbc.Error"]

\* A name read before assignment.  No handler catches it: the server answers
\* 500 with the plain text "Internal Server Error".
UnboundLocalError ==
    [status |-> 500, json |-> FALSE, detail |-> <<>>, body |-> <<>>,
     exc |-> "UnboundLocalError"]

\* The framework's answer to a body that fails BookCreate's validation.
RequestValidationError ==
    [status |-> 422, json |-> TRUE,
     detail |-> <<"ensure this value is greater than 0">>, body |-> <<>>,
     exc |-> "RequestValidationError"]

NoResp ==
    [status |-> 0, json |-> FALSE, detail |-> <<>>, body |-> <<>>,
     exc |-> "none"]

\* str(e): an HTTPException prints as "<status>: <detail>".
StatusText(n) == IF n = 404 THEN "404: " ELSE "500: "
Str(e) ==
    IF e.exc = "HTTPException" THEN <<StatusText(e.status)>> \o e.detail
    ELSE e.detail

\* get_db_connection() when pyodbc.connect fails
ConnectError == HTTPException(500, <<"Database connection error: ", DriverMsg>>)

BookNotFound == HTTPException(404, <<"Book not found">>)

\* except Exception as e: raise HTTPException(status_code=500, detail=str(e))
ExceptException(x) ==
    IF x.exc = "none" THEN x ELSE HTTPException(500, Str(x))

\* create_book's except: rollback, and the detail is prefixed
ExceptCreateSwallowed(x) == IF x.exc = "none" THEN x ELSE Ok(<<>>)
ExceptCreate(x) ==
    IF x.exc = "none" THEN x
    ELSE HTTPException(500, <<"Error creating book: ">> \o Str(x))

\* finally: conn.close(), where conn is bound only once get_db_connection
\* has returned: the exception of the finally clause replaces the pending one.
FinallyClose(bound, x) == IF bound THEN x ELSE UnboundLocalError

\* The connection's account at the end of such a handler.
NoConn == [opened |-> 0, closed |-> 0, unbound_close |-> FALSE]
Opened == [opened |-> 1, closed |-> 0, unbound_close |-> FALSE]
Closed == [opened |-> 1, closed |-> 1, unbound_close |-> FALSE]
ConnAfterClose(bound) ==
    IF bound THEN Closed ELSE [NoConn EXCEPT !.unbound_close = TRUE]

\* create_book: conn = None before the try; finally: if conn: conn.close()
ConnAfterGuardedClose(acquired) == IF acquired THEN Closed ELSE NoConn

---------------------------------------------------------------------------------------------------------------------------------------------------
(* Requests *)

Request(op, id, raw, skip, limit) ==
    [op |-> op, id |-> id, raw |-> raw, skip |-> skip, limit |-> limit]

NoRequest == Request("none", 0, NoPayload, 0, 0)

\* What the driver does to the first part of a request (the connection and
\* the first statement) and to its second part (the write and the commit).
ReadFaults == {"none", "connect", "query"}
WriteFaults == {"none", "write"}

\* The record of an ended request.
Ended(c, r, fault, x, account) ==
    [client |-> c, req |-> r, fault |-> fault, resp |-> x, conn |-> account]

Init ==
    /\ store \in SeedStores
    /\ unique \in BOOLEAN
    /\ pc = [c \in Clients |-> "idle"]
    /\ req = [c \in Clients |-> NoRequest]
    /\ new_id = [c \in Clients |-> 0]
    /\ last = Ended("none", NoRequest, "none", NoResp, NoConn)
    /\ nreq = 0
    /\ lastWrite = << >>

\* A request arrives for an idle client.
Begin(c) ==
    /\ pc[c] = "idle"
    /\ nreq < MaxRequests
    /\ nreq' = nreq + 1

\* The try block of a handler up to the result of its first statement.
TryQuery(fault, result) ==
    IF fault = "connect" THEN ConnectError
    ELSE IF fault = "query" THEN PyodbcError
    ELSE result

\* A handler ends through "except Exception" and "finally: conn.close()".
Exit(c, r, fault, x) ==
    Ended(c, r, fault, FinallyClose(fault # "connect", ExceptException(x)),
          ConnAfterClose(fault # "connect"))

\* create_book ends through its own except and its guarded finally.
ExitCreate(c, r, fault, x) ==
    Ended(c, r, fault, ExceptCreate(x), ConnAfterGuardedClose(fault # "connect"))

\* A handler of one query, from the request to the response.
Serve(c, r, fault, result) ==
    /\ Begin(c)
    /\ last' = Exit(c, r, fault, TryQuery(fault, result))
    /\ UNCHANGED <<store, unique, pc, req, new_id, lastWrite>>

get_books_structure(c) ==
    \E fault \in ReadFaults :
        Serve(c, Request("structure", 0, NoPayload, 0, 0), fault, Ok(<<>>))

RECURSIVE Books(_)
Books(rows) ==
    IF rows = <<>> THEN <<>> ELSE <<BookOfRow(Head(rows))>> \o Books(Tail(rows))

get_books(c) ==
    \E skip \in Skips, limit \in Limits, fault \in ReadFaults :
        Serve(c, Request("list", 0, NoPayload, skip, limit), fault,
              Ok(Books(OffsetFetch(store, skip, limit))))

get_book(c) ==
    \E book_id \in ArgIds, fault \in ReadFaults :
        \E row \in FetchOne(store, book_id) :
            Serve(c, Request("get", book_id, NoPayload, 0, 0), fault,
                  IF row = <<>> THEN BookNotFound
                  ELSE Ok(<<BookOfRow(row[1])>>))

get_shop_stock(c) ==
    \E shop_id \in Shops, fault \in ReadFaults :
        Serve(c, Request("stock", shop_id, NoPayload, 0, 0), fault,
              Ok(JoinStock(Stocks, store, shop_id)))

\* The body is rejected before the handler is called.
Rejected(c, r) ==
    /\ Begin(c)
    /\ last' = Ended(c, r, "none", RequestValidationError, NoConn)
    /\ UNCHANGED <<store, unique, pc, req, new_id, lastWrite>>

\* The first statement went through: the handler goes on to its write.
Proceed(c, r, id) ==
    /\ Begin(c)
    /\ pc' = [pc EXCEPT ![c] = r.op]
    /\ req' = [req EXCEPT ![c] = r]
    /\ new_id' = [new_id EXCEPT ![c] = id]
    /\ UNCHANGED <<store, unique, last, lastWrite>>

\* The handler's write ends the request.
Finish(c, ended) ==
    /\ pc' = [pc EXCEPT ![c] = "idle"]
    /\ req' = [req EXCEPT ![c] = NoRequest]
    /\ new_id' = [new_id EXCEPT ![c] = 0]
    /\ last' = ended
    /\ UNCHANGED <<unique, nreq>>

\* create_book up to new_id = cursor.fetchone()[0]
create_book(c) ==
    \E raw \in Payloads, fault \in ReadFaults :
        LET r == Request("create", 0, raw, 0, 0)
        IN  IF ~PriceAccepted(raw.Price) THEN fault = "none" /\ Rejected(c, r)
            ELSE IF fault # "none"
            THEN /\ Begin(c)
                 /\ last' = ExitCreate(c, r, fault, TryQuery(fault, NoResp))
                 /\ UNCHANGED <<store, unique, pc, req, new_id, lastWrite>>
            ELSE Proceed(c, r, NextBookId(store))

Written(id, kind, book) == (id :> [kind |-> kind, book |-> book]) @@ lastWrite

\* create_book from the INSERT on: execute, commit, return, or rollback
create_book_insert(c) ==
    \E fault \in WriteFaults :
        LET book == BookCreate(req[c].raw)
        IN  /\ pc[c] = "create"
            /\ IF fault = "write" \/ KeyViolation(store, new_id[c])
               THEN /\ Finish(c, ExitCreate(c, req[c],
                                    IF fault = "write" THEN fault ELSE "key",
                                    PyodbcError))
                    /\ UNCHANGED <<store, lastWrite>>
               ELSE /\ fault = "none"
                    /\ store' = Append(store, InsertParams(new_id[c], book))
                    /\ Finish(c, ExitCreate(c, req[c], "none",
                                    Ok(<<BookOfPayload(new_id[c], book)>>)))
                    /\ lastWrite' = Written(new_id[c], "created", book)

\* update_book and delete_book up to the existence check
CheckExists(c, r, fault) ==
    IF fault # "none" \/ r.id \notin Ids(store)
    THEN Serve(c, r, fault, BookNotFound)
    ELSE Proceed(c, r, 0)

update_book(c) ==
    \E book_id \in ArgIds, raw \in Payloads, fault \in ReadFaults :
        LET r == Request("update", book_id, raw, 0, 0)
        IN  IF ~PriceAccepted(raw.Price) THEN fault = "none" /\ Rejected(c, r)
            ELSE CheckExists(c, r, fault)

\* update_book from the UPDATE on: execute, commit, return
update_book_write(c) ==
    \E fault \in WriteFaults :
        LET book == BookCreate(req[c].raw)
            book_id == req[c].id
        IN  /\ pc[c] = "update"
            /\ IF fault = "write"
               THEN /\ Finish(c, Exit(c, req[c], fault, PyodbcError))
                    /\ UNCHANGED <<store, lastWrite>>
               ELSE /\ store' = UpdateRows(store, book_id, book)
                    /\ Finish(c, Exit(c, req[c], fault,
                                      Ok(<<BookOfPayload(book_id, book)>>)))
                    /\ lastWrite' = IF book_id \in Ids(store)
                                    THEN Written(book_id, "updated", book)
                                    ELSE lastWrite

delete_book(c) ==
    \E book_id \in ArgIds, fault \in ReadFaults :
        CheckExists(c, Request("delete", book_id, NoPayload, 0, 0), fault)

\* delete_book from the DELETE on: execute, commit, return
delete_book_write(c) ==
    \E fault \in WriteFaults :
        LET book_id == req[c].id
        IN  /\ pc[c] = "delete"
            /\ IF fault = "write"
               THEN /\ Finish(c, Exit(c, req[c], fault, PyodbcError))
                    /\ UNCHANGED <<store, lastWrite>>
               ELSE /\ store' = DeleteRows(store, book_id)
                    /\ Finish(c, Exit(c, req[c], fault,
                              Ok(<<[message |-> "Book deleted successfully"]>>)))
                    /\ lastWrite' = IF book_id \in Ids(store)
                                    THEN Written(book_id, "deleted", NoPayload)
                                    ELSE lastWrite

Next ==
    \E c \in Clients :
        \/ get_books_structure(c)
        \/ get_books(c)
        \/ get_book(c)
        \/ create_book(c)
        \/ create_book_insert(c)
        \/ update_book(c)
        \/ update_book_write(c)
        \/ delete_book(c)
        \/ delete_book_write(c)
        \/ get_shop_stock(c)

\* Requests arrive on concurrent connections.
Spec == Init /\ [][Next]_vars

\* Requests arrive one at a time: none starts while another is being served.
Sequential == Cardinality({ c \in Clients : pc[c] # "idle" }) <= 1

Alone(A) == A /\ Sequential'

NextSeq ==
    \E c \in Clients :
        \/ Alone(get_books_structure(c))
        \/ Alone(get_books(c))
        \/ Alone(get_book(c))
        \/ Alone(create_book(c))
        \/ Alone(create_book_insert(c))
        \/ Alone(update_book(c))
        \/ Alone(update_book_write(c))
        \/ Alone(delete_book(c))
        \/ Alone(delete_book_write(c))
        \/ Alone(get_shop_stock(c))

SpecSeq == Init /\ [][NextSeq]_vars

----------------------------------------------------------------------------
(* Properties *)

\* A step in which a request arrives and ends at once; last' is its record.
ServedAtOnce == nreq' = nreq + 1 /\ pc' = pc

\* A step in which client c's handler ends with its write; last' is its record.
WriteEnds(c, op) == pc[c] = op /\ pc'[c] = "idle"

Greatest(S) == CHOOSE x \in S : \A y \in S : y <= x

Abs(n) == IF n < 0 THEN -n ELSE n

\* C1: get_book, update_book and delete_book of a BookID that is not in Books
\* end with status 404 and the detail "Book not found" (the driver working,
\* the body valid).
NotFoundIs404 ==
    [][ ( /\ ServedAtOnce
          /\ last'.req.op \in {"get", "update", "delete"}
          /\ last'.req.id \notin Ids(store)
          /\ last'.fault = "none"
          /\ last'.resp.exc # "RequestValidationError" )
        => ( /\ last'.resp.status = 404
             /\ last'.resp.detail = <<"Book not found">> ) ]_vars

\* C2: on every exit path of every handler the request's connection is closed
\* exactly once if it was opened, and the release neither fails nor acts on a
\* connection that was never acquired.
ConnectionReleasedOnce ==
    /\ last.conn.opened <= 1
    /\ last.conn.closed = last.conn.opened
    /\ ~last.conn.unbound_close
    /\ last.resp.exc # "UnboundLocalError"

\* C3: every row of Books has Price > 0.
StoredPricePositive ==
    \A i \in DOMAIN store : store[i].Price > 0

\* C4: create_book with Price <= 0 ends in a 4xx response with a message and
\* never reaches the store: no connection, no max(BookID) read, no INSERT.
NonPositivePriceRejected ==
    [][ /\ \A c \in Clients :
              req'[c].op = "create" => req'[c].raw.Price > 0
        /\ ( /\ last' # last \/ ServedAtOnce
             /\ last'.req.op = "create"
             /\ last'.req.raw.Price <= 0 )
           => ( /\ last'.resp.status \in 400..499
                /\ last'.resp.detail # <<>>
                /\ last'.conn = NoConn
                /\ new_id' = new_id
                /\ store' = store ) ]_vars

NonPositivePriceRejectedWitness ==
    /\ last.req.op = "create"
    /\ last.req.raw.Price <= 0
    /\ last.resp.status = 422

\* C5: a create_book that runs alone and without a driver error adds exactly
\* one row and returns the Book with BookID max + 1 (1 on an empty table), the
\* price rounded to 2 decimals and the payload's other fields; the rows that
\* existed are unchanged.
CreateAddsOneRow ==
    [][ \A c \in Clients :
          ( WriteEnds(c, "create") /\ last'.resp.status = 200 )
          => LET raw == req[c].raw
                 b == last'.resp.body[1]
             IN  /\ Len(last'.resp.body) = 1
                 /\ Len(store') = Len(store) + 1
                 /\ SubSeq(store', 1, Len(store)) = store
                 /\ store'[Len(store')].BookID = b.BookID
                 /\ b.BookID = IF store = <<>> THEN 1
                               ELSE Greatest(Ids(store)) + 1
                 /\ b.Price % 10 = 0
                 /\ Abs(b.Price - raw.Price) <= 5
                 /\ b.Title = raw.Title
                 /\ b.Author = raw.Author
                 /\ b.Genre = raw.Genre
                 /\ b.PublishedDate = raw.PublishedDate ]_vars

CreateAddsOneRowWitness ==
    /\ last.req.op = "create"
    /\ last.req.raw.Price = 9999
    /\ last.resp.status = 200
    /\ last.resp.body[1].BookID = 4
    /\ last.resp.body[1].Price = 10000
    /\ Len(store) = 3

\* What get_book returns for a BookID whose last write was a create or an
\* update: the written payload with the BookID.
GetReflectsLiveWrite ==
    ( /\ last.req.op = "get"
      /\ last.fault = "none"
      /\ last.req.id \in DOMAIN lastWrite
      /\ lastWrite[last.req.id].kind # "deleted" )
    => last.resp = Ok(<<BookOfPayload(last.req.id, lastWrite[last.req.id].book)>>)

\* C6: after any sequence of successful create, update and delete calls run
\* one at a time, get_book(id) reflects the last write to id: the written
\* payload with the BookID after a create or an update, NotFound (404) after
\* a delete.
GetReflectsLastWrite ==
    /\ GetReflectsLiveWrite
    /\ ( /\ last.req.op = "get"
         /\ last.fault = "none"
         /\ last.req.id \in DOMAIN lastWrite
         /\ lastWrite[last.req.id].kind = "deleted" )
       => last.resp.status = 404

\* C7: get_books(skip, limit) with skip >= 0 and limit > 0 returns at most
\* limit books in ascending BookID order, the slice of the BookID-ordered
\* table that starts at offset skip; nothing when skip >= the row count.
ListIsOrderedSlice ==
    ( last.req.op = "list" /\ last.fault = "none" )
    => LET r == last.resp.body
           skip == last.req.skip
           limit == last.req.limit
           n == Len(store)
           Below(id) == Cardinality({ i \in DOMAIN store : store[i].BookID < id })
           UpTo(id) == Cardinality({ i \in DOMAIN store : store[i].BookID <= id })
       IN  /\ last.resp.status = 200
           /\ Len(r) <= limit
           /\ Len(r) = Min(limit, IF skip >= n THEN 0 ELSE n - skip)
           /\ skip >= n => r = <<>>
           /\ \A i, j \in DOMAIN r : i < j => r[i].BookID <= r[j].BookID
           /\ \A i \in DOMAIN r :
                /\ \E k \in DOMAIN store : BookOfRow(store[k]) = r[i]
                /\ Below(r[i].BookID) <= skip + i - 1
                /\ skip + i - 1 < UpTo(r[i].BookID)

ListIsOrderedSliceWitness ==
    /\ last.req.op = "list"
    /\ last.fault = "none"
    /\ last.req.skip = 1
    /\ last.req.limit = 1
    /\ Len(store) = 3
    /\ Len(last.resp.body) = 1
    /\ last.resp.body[1].BookID = 3

\* C8: two concurrent create_book calls can hold the same candidate BookID.
\* With BookID unique the table never holds a BookID twice, and the create
\* that finds its candidate taken changes nothing and answers 500; without
\* the constraint a create that finds its candidate taken and succeeds leaves
\* two rows with that BookID.
ConcurrentCreateOutcome ==
    /\ [](unique => Cardinality(Ids(store)) = Len(store))
    /\ [][ \A c \in Clients :
             ( WriteEnds(c, "create") /\ new_id[c] \in Ids(store) )
             => /\ unique => ( /\ store' = store
                               /\ last'.resp.status = 500
                               /\ last'.resp.json
                               /\ last'.resp.detail # <<>> )
                /\ ( ~unique /\ last'.resp.status = 200 )
                   => Cardinality({ i \in DOMAIN store' :
                                      store'[i].BookID = new_id[c] }) >= 2 ]_vars

ConcurrentCreateOutcomeWitness ==
    /\ unique
    /\ last.req.op = "create"
    /\ last.fault = "key"
    /\ last.resp.status = 500
    /\ last.conn = Closed

\* Both candidates read before either insert.
SameCandidateRead ==
    /\ pc["c1"] = "create"
    /\ pc["c2"] = "create"
    /\ new_id["c1"] = new_id["c2"]

\* Without the constraint: two rows carry the same BookID.
DuplicateBookID == ~unique /\ Cardinality(Ids(store)) < Len(store)

\* C9: when the connection cannot be acquired the response is a 500-class
\* JSON error whose detail carries the driver's message, and no other
\* exception ends the request.
ConnectFailureTranslated ==
    last.fault = "connect"
    => ( /\ last.resp.status \in 500..599
         /\ last.resp.json
         /\ DriverMsg \in Range(last.resp.detail)
         /\ last.resp.exc = "HTTPException" )

\* C10: when update_book returns the updated Book, Books holds at its commit
\* a row with that BookID and exactly the payload's values.
UpdateSuccessHasRow ==
    [][ \A c \in Clients :
          ( WriteEnds(c, "update") /\ last'.resp.status = 200 )
          => \E i \in DOMAIN store' :
                BookOfRow(store'[i]) = last'.resp.body[1] ]_vars

====
